---- MODULE Spec2Model ----
(***************************************************************************)
(* Model of the multi-project webhook server (src/webhook/webhook_server.py)*)
(*                                                                         *)
(* Text values (header values, request paths) are sequences of tokens, so  *)
(* that str.split and str.strip are computed rather than assumed.  An      *)
(* optional value (a missing dict key, a missing header, Python's None) is *)
(* None == <<>>, a present value x is Some(x) == <<x>>.                    *)
(***************************************************************************)
EXTENDS Naturals, Sequences, FiniteSets, TLC

VARIABLES
    config,        \* WebhookFramework.config, loaded once by load_config
    pc,            \* where the single-threaded server is: idle / dispatch /
                   \* running / done
    req,           \* the request being handled: [method, path, header, body]
    resp,          \* the response sent: [status, text, result, report]
    cur,           \* project id whose actions are being executed
    idx,           \* 1-based position in the action list (the for loop)
    success_count, \* process_webhook's success_count
    attempts,      \* history: one record per execute_action call of this delivery
    child,         \* the running bash child of subprocess.run, or None
    vin,           \* inputs of a stand-alone verify_signature call
    vout           \* its outcome

vars == <<config, pc, req, resp, cur, idx, success_count, attempts, child,
          vin, vout>>

\* ---------------------------------------------------------------- bounds
MaxActions == 2
MaxHeaderLen == 4

\* ------------------------------------------------------- optional values
None == <<>>

Some(x) == <<x>>

IsNone(o) == o = <<>>

Val(o) == o[1]

\* dict.get(key, default) on an optional field
Get(o, default) == IF IsNone(o) THEN default ELSE Val(o)

\* ------------------------------------------------------------- text
\* str.split(sep): one more segment than there are separators
RECURSIVE Split(_, _)
Split(s, sep) ==
    IF s = <<>> THEN << <<>> >>
    ELSE LET rest == Split(Tail(s), sep)
         IN  IF Head(s) = sep
             THEN << <<>> >> \o rest
             ELSE << <<Head(s)>> \o Head(rest) >> \o Tail(rest)

RECURSIVE LStrip(_, _)
LStrip(s, ch) ==
    IF s # <<>> /\ Head(s) = ch THEN LStrip(Tail(s), ch) ELSE s

RECURSIVE RStrip(_, _)
RStrip(s, ch) ==
    IF s # <<>> /\ s[Len(s)] = ch THEN RStrip(SubSeq(s, 1, Len(s) - 1), ch) ELSE s

\* str.strip(ch)
Strip(s, ch) == RStrip(LStrip(s, ch), ch)

\* ------------------------------------------------------------- HMAC
Secrets == {"s1", "s2"}

\* hmac.new(secret.encode(), payload, sha256).hexdigest(): a term that names its
\* key and its message (distinct key or message, distinct digest)
HexDigest(secret, payload) == "mac(" \o secret \o "," \o payload \o ")"

\* hmac.compare_digest on two str raises TypeError when one holds a non-ASCII character
NonAscii == "\\u00e9"

\* The try block of verify_signature (lines 69-76): the value it returns, or the
\* exception it raises.
VerifyTry(payload, signature_header, secret) ==
    LET parts == Split(signature_header, "=")
    IN  IF Len(parts) # 2
        THEN [exc |-> "ValueError", val |-> FALSE]        \* tuple unpacking
        ELSE LET sha_name == parts[1]
                 signature == parts[2]
             IN  IF sha_name # <<"sha256">>
                 THEN [exc |-> "none", val |-> FALSE]
                 ELSE IF IsNone(secret)
                 THEN [exc |-> "AttributeError", val |-> FALSE]   \* None.encode()
                 ELSE IF \E i \in 1..Len(signature) : signature[i] = NonAscii
                 THEN [exc |-> "TypeError", val |-> FALSE]        \* compare_digest
                 ELSE [exc |-> "none",
                       val |-> signature = <<HexDigest(Val(secret), payload)>>]

\* The bare except of lines 77-78 dropped: the exception leaves verify_signature
VerifyNoExcept(payload, signature_header, secret) ==
    IF IsNone(signature_header) \/ Val(signature_header) = <<>>
    THEN [exc |-> "none", val |-> FALSE]
    ELSE VerifyTry(payload, Val(signature_header), secret)

\* The prefix test of line 70 dropped
VerifyAnyPrefix(payload, signature_header, secret) ==
    IF IsNone(signature_header) \/ Val(signature_header) = <<>>
    THEN [exc |-> "none", val |-> FALSE]
    ELSE LET parts == Split(Val(signature_header), "=")
         IN  [exc |-> "none",
              val |-> /\ Len(parts) = 2
                      /\ ~IsNone(secret)
                      /\ parts[2] = <<HexDigest(Val(secret), payload)>>]

\* WebhookFramework.verify_signature: [exc, val]; exc is the exception that
\* leaves the function ("none" when it returns val)
verify_signature(payload, signature_header, secret) ==
    IF IsNone(signature_header) \/ Val(signature_header) = <<>>
    THEN [exc |-> "none", val |-> FALSE]
    ELSE LET r == VerifyTry(payload, Val(signature_header), secret)
         IN  IF r.exc # "none" THEN [exc |-> "none", val |-> FALSE] ELSE r

\* ------------------------------------------------------------- configuration
ProjectIds == {"alpha", "beta"}

\* The actions a project may declare: every action type of execute_action, with a
\* present, a missing and an empty command, and a type execute_action does not know
ActionKinds ==
    { [type |-> "git_pull",        command |-> None],
      [type |-> "fix_permissions", command |-> Some("chmod -R g+w .")],
      [type |-> "custom_command",  command |-> None],
      [type |-> "build",           command |-> Some("npm run build")],
      [type |-> "restart_service", command |-> Some("")],
      [type |-> "deploy",          command |-> None] }

ActionLists == UNION { [1..n -> ActionKinds] : n \in 0..MaxActions }

OptBool == {None, Some(TRUE), Some(FALSE)}

\* projects.alpha of config.yaml: branch and timeout left to the code's defaults
AlphaProject(enabled, actions) ==
    [ repository |-> Some("owner/alpha"),
      branch     |-> None,
      secret     |-> Some("s1"),
      local_path |-> Some("/srv/alpha"),
      enabled    |-> enabled,
      actions    |-> Some(actions),
      timeout    |-> None ]

\* projects.beta of config.yaml: no local_path, so its git_pull cannot run
BetaProject ==
    [ repository |-> Some("owner/beta"),
      branch     |-> Some("dev"),
      secret     |-> Some("s2"),
      local_path |-> None,
      enabled    |-> Some(TRUE),
      actions    |-> Some(<< [type |-> "git_pull", command |-> None],
                            [type |-> "custom_command",
                             command |-> Some("systemctl reload nginx")] >>),
      timeout    |-> Some(60) ]

\* What yaml.safe_load may hand to the server: the defaults section supplies
\* enabled or not, project alpha states enabled or not and declares any action list
load_config ==
    { [ defaults |-> [enabled |-> d],
        projects |-> [alpha |-> AlphaProject(e, acts), beta |-> BetaProject] ] :
      d \in OptBool, e \in OptBool, acts \in ActionLists }

\* get_project_config: None for an unknown id, else the project's own entry with
\* every key it lacks taken from defaults
get_project_config(project_id) ==
    IF project_id \notin DOMAIN config.projects
    THEN None
    ELSE LET project  == config.projects[project_id]
             defaults == config.defaults
         IN  Some([ key \in DOMAIN project |->
                      IF IsNone(project[key]) /\ key \in DOMAIN defaults
                      THEN defaults[key]
                      ELSE project[key] ])

\* ------------------------------------------------------------- JSON bodies
JsonObject(repository, ref) ==
    [kind |-> "object", repository |-> repository, ref |-> ref]

JsonOther(kind) == [kind |-> kind, repository |-> None, ref |-> None]

RepoObject(full_name) == [kind |-> "object", full_name |-> full_name]

RepoOther(kind) == [kind |-> kind, full_name |-> None]

\* The raw request bodies explored, as the text on the wire
BodyMainAlpha  == "{\"ref\":\"refs/heads/main\",\"repository\":{\"full_name\":\"owner/alpha\"}}"
BodyDevAlpha   == "{\"ref\":\"refs/heads/dev\",\"repository\":{\"full_name\":\"owner/alpha\"}}"
BodyMainFork   == "{\"ref\":\"refs/heads/main\",\"repository\":{\"full_name\":\"evil/fork\"}}"
BodyDevFork    == "{\"ref\":\"refs/heads/dev\",\"repository\":{\"full_name\":\"evil/fork\"}}"
BodyDevBeta    == "{\"ref\":\"refs/heads/dev\",\"repository\":{\"full_name\":\"owner/beta\"}}"
BodyNoRepo     == "{\"ref\":\"refs/heads/main\"}"
BodyRepoString == "{\"ref\":\"refs/heads/dev\",\"repository\":\"owner/alpha\"}"
BodyArray      == "[]"
BodyNull       == "null"
BodyTruncated  == "{\"ref\":"
BodyNotUtf8    == "\\xff\\xfe"

Bodies ==
    { BodyMainAlpha, BodyDevAlpha, BodyMainFork, BodyDevFork, BodyDevBeta, BodyNoRepo,
      BodyRepoString, BodyArray, BodyNull, BodyTruncated, BodyNotUtf8 }

\* json.loads(post_data.decode('utf-8')): the value, or the exception raised
json_loads(body) ==
    LET ok(v) == [exc |-> "none", val |-> v]
    IN  CASE body = BodyMainAlpha ->
               ok(JsonObject(Some(RepoObject(Some("owner/alpha"))), Some("refs/heads/main")))
          [] body = BodyDevAlpha ->
               ok(JsonObject(Some(RepoObject(Some("owner/alpha"))), Some("refs/heads/dev")))
          [] body = BodyMainFork ->
               ok(JsonObject(Some(RepoObject(Some("evil/fork"))), Some("refs/heads/main")))
          [] body = BodyDevFork ->
               ok(JsonObject(Some(RepoObject(Some("evil/fork"))), Some("refs/heads/dev")))
          [] body = BodyDevBeta ->
               ok(JsonObject(Some(RepoObject(Some("owner/beta"))), Some("refs/heads/dev")))
          [] body = BodyNoRepo ->
               ok(JsonObject(None, Some("refs/heads/main")))
          [] body = BodyRepoString ->
               ok(JsonObject(Some(RepoOther("string")), Some("refs/heads/dev")))
          [] body = BodyArray -> ok(JsonOther("array"))
          [] body = BodyNull  -> ok(JsonOther("null"))
          [] body = BodyNotUtf8 ->
               [exc |-> "UnicodeDecodeError", val |-> JsonOther("null")]
          [] OTHER ->
               [exc |-> "JSONDecodeError", val |-> JsonOther("null")]

\* ------------------------------------------------------------- dispatcher
\* Line 154 with the default flipped: a project without enabled counts as enabled
IsEnabledByDefault(project_config) == Get(project_config.enabled, TRUE)

\* project_config.get('enabled', False)
IsEnabled(project_config) == Get(project_config.enabled, FALSE)

\* f"refs/heads/{project_config.get('branch', 'main')}"
ExpectedRef(project_config) == "refs/heads/" \o Get(project_config.branch, "main")

\* process_webhook up to its action loop (lines 149-172): either an exception, or
\* an early return (go = FALSE) with its message, or entry into the loop (go = TRUE)
Match(project_id, payload) ==
    LET pcfg == get_project_config(project_id)
        stop(message) == [exc |-> "none", go |-> FALSE, message |-> message]
        raise(e) == [exc |-> e, go |-> FALSE, message |-> ""]
    IN  IF IsNone(pcfg) THEN stop("Project not found")
        ELSE IF ~IsEnabled(Val(pcfg)) THEN stop("Project disabled")
        ELSE IF payload.kind # "object"
        THEN raise("AttributeError")        \* list, str, int, None have no .get
        ELSE IF ~IsNone(payload.repository) /\ Val(payload.repository).kind # "object"
        THEN raise("AttributeError")        \* payload['repository'] has no .get
        ELSE LET repo_name == IF IsNone(payload.repository)
                              THEN None
                              ELSE Val(payload.repository).full_name
                 ref == Get(payload.ref, "")
             IN  IF repo_name # Val(pcfg).repository THEN stop("Repository mismatch")
                 ELSE IF ref # ExpectedRef(Val(pcfg)) THEN stop("Branch mismatch")
                 ELSE [exc |-> "none", go |-> TRUE, message |-> ""]

\* project_config.get('actions', []) of the project being dispatched
Actions(project_id) == Get(Val(get_project_config(project_id)).actions, <<>>)

\* Lines 184-189 with the comparison weakened to "some action succeeded"
ConcludeAny(count, total) ==
    IF count > 0 \/ total = 0
    THEN [success |-> TRUE, message |-> "All actions completed successfully"]
    ELSE [success |-> FALSE,
          message |-> "Only " \o ToString(count) \o "/" \o ToString(total)
                      \o " actions completed"]

\* process_webhook's result after the loop (lines 184-189)
Conclude(count, total) ==
    IF count = total
    THEN [success |-> TRUE, message |-> "All actions completed successfully"]
    ELSE [success |-> FALSE,
          message |-> "Only " \o ToString(count) \o "/" \o ToString(total)
                      \o " actions completed"]

\* ------------------------------------------------------------- action executor
\* execute_command before subprocess.run (lines 116-117): an empty or missing
\* command returns True without a child; anything else is run by bash -c
execute_command(command, timeout) ==
    IF IsNone(command) \/ Val(command) = ""
    THEN [spawn |-> FALSE, ok |-> TRUE, command |-> "", timeout |-> timeout]
    ELSE [spawn |-> TRUE, ok |-> FALSE, command |-> Val(command), timeout |-> timeout]

\* git_pull (lines 102-112); path_exists is os.path.exists(local_path)
git_pull(project_config, path_exists) ==
    LET local_path == project_config.local_path
        branch == Get(project_config.branch, "main")
    IN  IF IsNone(local_path) \/ Val(local_path) = "" \/ ~path_exists
        THEN [spawn |-> FALSE, ok |-> FALSE, command |-> "", timeout |-> 0]
        ELSE execute_command(
                 Some("cd " \o Val(local_path) \o " && git pull origin " \o branch),
                 Get(project_config.timeout, 30))

\* execute_action (lines 80-100) up to the point where a child is started
execute_action(action, project_config, path_exists) ==
    CASE action.type = "git_pull" -> git_pull(project_config, path_exists)
      [] action.type \in {"fix_permissions", "custom_command", "restart_service"} ->
           execute_command(action.command, Get(project_config.timeout, 30))
      [] action.type = "build" ->
           execute_command(action.command, Get(project_config.timeout, 120))
      [] OTHER -> [spawn |-> FALSE, ok |-> FALSE, command |-> "", timeout |-> 0]

\* What subprocess.run can do with a child: exit 0, exit nonzero, exceed the
\* timeout (TimeoutExpired), or fail to run (any other exception)
ChildOutcomes == {"exit0", "exit1", "timeout", "exception"}

\* lines 125-141: only returncode 0 is a success
CommandResult(outcome) == outcome = "exit0"

\* The for loop of line 178 skipping an element
NextIndexSkip(i) == i + 2

\* The for loop of line 178: the next element of the action list
NextIndex(i) == i + 1

\* The loop of lines 178-182 leaving at the first failed action
LoopDoneOnFailure(next, total, ok) == next > total \/ ~ok

\* The loop of lines 178-182 ends when the list is exhausted, whatever ok was
LoopDone(next, total, ok) == next > total

\* ------------------------------------------------------------- HTTP front end
NoReq == [method |-> "", path |-> <<>>, header |-> None, body |-> ""]

NoResp == [status |-> 0, text |-> "", result |-> None, report |-> None]

\* send_error(code, message)
send_error(code, message) ==
    [status |-> code, text |-> message, result |-> None, report |-> None]

\* lines 234-241: 200 either way, the message prefixed when success is false
Reply(result) ==
    [ status |-> 200,
      text   |-> IF result.success
                 THEN result.message
                 ELSE "Webhook received but no action taken: " \o result.message,
      result |-> Some(result),
      report |-> None ]

\* The text of a path segment (a segment holds at most one token)
SegText(seg) == IF Len(seg) = 1 THEN seg[1] ELSE ""

\* self.path.strip('/').split('/')
PathParts(path) == Split(Strip(path, "/"), "/")

\* do_POST up to the action loop (lines 200-248): the response it sends, or
\* go = TRUE when process_webhook enters its loop for project_id
PostOutcome(path, header, body) ==
    LET path_parts == PathParts(path)
        answer(r, id) == [resp |-> r, go |-> FALSE, project_id |-> id]
    IN  IF Len(path_parts) < 2 \/ path_parts[1] # <<"webhook">>
        THEN answer(send_error(404, "Invalid webhook path"), "")
        ELSE
        LET project_id == SegText(path_parts[2])
            project_config == get_project_config(project_id)
        IN  IF IsNone(project_config)
            THEN answer(send_error(404, "Project not found"), "")
            ELSE IF ~verify_signature(body, header, Val(project_config).secret).val
            THEN answer(send_error(403, "Invalid signature"), project_id)
            ELSE
            LET parsed == json_loads(body)
            IN  IF parsed.exc = "JSONDecodeError"
                THEN answer(send_error(400, "Invalid JSON payload"), project_id)
                ELSE IF parsed.exc # "none"
                THEN answer(send_error(500, "Internal server error"), project_id)
                ELSE
                LET m == Match(project_id, parsed.val)
                IN  IF m.exc # "none"
                    THEN answer(send_error(500, "Internal server error"), project_id)
                    ELSE IF m.go
                    THEN [resp |-> NoResp, go |-> TRUE, project_id |-> project_id]
                    ELSE answer(Reply([success |-> FALSE, message |-> m.message]),
                                project_id)

PostPaths ==
    { <<"/", "webhook", "/", "alpha">>,
      <<"/", "webhook", "/", "beta", "/">>,
      <<"/", "webhook", "/", "ghost">>,
      <<"/", "webhook">>,
      <<"/", "hooks", "/", "alpha">> }

\* The X-Hub-Signature-256 values a sender may attach to body: none, a made-up
\* digest, the digest under either project's secret, and a digest that is right
\* but announced under another scheme
HeadersFor(body) ==
    {None, Some(<<"sha256", "=", "deadbeef">>)}
    \cup { Some(<<"sha256", "=", HexDigest(s, body)>>) : s \in Secrets }
    \cup { Some(<<"sha1", "=", HexDigest(s, body)>>) : s \in Secrets }

\* One step of the loop is over with result ok: count it, move on, and after the
\* last action answer (lines 179-189, 234-241)
Advance(ok) ==
    LET count == IF ok THEN success_count + 1 ELSE success_count
        total == Len(Actions(cur))
        next  == NextIndex(idx)
    IN  /\ success_count' = count
        /\ idx' = next
        /\ IF LoopDone(next, total, ok)
           THEN pc' = "done" /\ resp' = Reply(Conclude(count, total))
           ELSE pc' = "dispatch" /\ resp' = resp

\* WebhookHandler.do_POST, to its response or to the first action of the loop
do_POST(path, header, body) ==
    /\ pc = "idle"
    /\ req' = [method |-> "POST", path |-> path, header |-> header, body |-> body]
    /\ LET out == PostOutcome(path, header, body)
       IN  /\ cur' = out.project_id
           /\ IF out.go /\ Len(Actions(out.project_id)) > 0
              THEN pc' = "dispatch" /\ idx' = 1 /\ resp' = NoResp
              ELSE IF out.go
              THEN pc' = "done" /\ idx' = 1 /\ resp' = Reply(Conclude(0, 0))
              ELSE pc' = "done" /\ idx' = 0 /\ resp' = out.resp
    /\ success_count' = 0
    /\ attempts' = <<>>
    /\ UNCHANGED <<config, child, vin, vout>>

\* One iteration of the loop reaches execute_action: the action either ends
\* without a child or starts one
ExecuteAction(path_exists) ==
    /\ pc = "dispatch"
    /\ LET action == Actions(cur)[idx]
           plan == execute_action(action, Val(get_project_config(cur)), path_exists)
           entry == [index |-> idx, action |-> action, spawned |-> plan.spawn,
                     exit |-> IF plan.spawn THEN "pending" ELSE "none",
                     ok |-> plan.ok]
       IN  /\ attempts' = Append(attempts, entry)
           /\ IF plan.spawn
              THEN /\ pc' = "running"
                   /\ child' = Some([command |-> plan.command, timeout |-> plan.timeout])
                   /\ UNCHANGED <<idx, success_count, resp>>
              ELSE /\ child' = child
                   /\ Advance(plan.ok)
    /\ UNCHANGED <<config, req, cur, vin, vout>>

\* subprocess.run returns or raises (lines 121-141)
SubprocessReturn(outcome) ==
    /\ pc = "running"
    /\ LET ok == CommandResult(outcome)
       IN  /\ attempts' = [attempts EXCEPT ![Len(attempts)] =
                               [@ EXCEPT !.exit = outcome, !.ok = ok]]
           /\ Advance(ok)
    /\ child' = None
    /\ UNCHANGED <<config, req, cur, vin, vout>>

GetPaths ==
    { <<"/", "health">>, <<"/", "projects">>, <<"/", "projects", "/", "alpha">>,
      <<"/", "status">> }

\* str.startswith
StartsWith(s, prefix) ==
    Len(s) >= Len(prefix) /\ SubSeq(s, 1, Len(prefix)) = prefix

\* The "enabled" entries of the /health and /projects answers (lines 262-267, 278-285)
EnabledReport ==
    [ project_id \in DOMAIN config.projects |->
        Get(config.projects[project_id].enabled, FALSE) ]

\* WebhookHandler.do_GET
do_GET(path) ==
    /\ pc = "idle"
    /\ req' = [method |-> "GET", path |-> path, header |-> None, body |-> ""]
    /\ resp' = IF path = <<"/", "health">>
                THEN [status |-> 200, text |-> "health", result |-> None,
                      report |-> Some(EnabledReport)]
                ELSE IF StartsWith(path, <<"/", "projects">>)
                THEN [status |-> 200, text |-> "projects", result |-> None,
                      report |-> Some(EnabledReport)]
                ELSE send_error(404, "Not Found")
    /\ pc' = "done"
    /\ cur' = ""
    /\ idx' = 0
    /\ success_count' = 0
    /\ attempts' = <<>>
    /\ UNCHANGED <<config, child, vin, vout>>

\* The handler object of a request is dropped and the server waits for the next
\* request: nothing of a delivery survives it but the log
finish_request ==
    /\ pc = "done"
    /\ pc' = "idle"
    /\ req' = NoReq
    /\ resp' = NoResp
    /\ cur' = ""
    /\ idx' = 0
    /\ success_count' = 0
    /\ attempts' = <<>>
    /\ UNCHANGED <<config, child, vin, vout>>

NoVin == [payload |-> "", header |-> None, secret |-> None]

Init ==
    /\ config \in load_config
    /\ pc = "idle"
    /\ req = NoReq
    /\ resp = NoResp
    /\ cur = ""
    /\ idx = 0
    /\ success_count = 0
    /\ attempts = <<>>
    /\ child = None
    /\ vin = NoVin
    /\ vout = None

Next ==
    \/ \E path \in PostPaths, body \in Bodies :
           \E header \in HeadersFor(body) : do_POST(path, header, body)
    \/ \E path_exists \in BOOLEAN : ExecuteAction(path_exists)
    \/ \E outcome \in ChildOutcomes : SubprocessReturn(outcome)
    \/ \E path \in GetPaths : do_GET(path)
    \/ finish_request

Spec == Init /\ [][Next]_vars

\* ------------------------------------------------------------- verify_signature alone
VerifyPayloads == {"p1", "p2"}

HeaderTokens ==
    {"sha256", "sha1", "=", NonAscii}
    \cup { HexDigest(s, p) : s \in Secrets, p \in VerifyPayloads }

HeaderValues == UNION { [1..n -> HeaderTokens] : n \in 0..MaxHeaderLen }

VerifyInputs ==
    [ payload : VerifyPayloads,
      header  : {None} \cup { Some(h) : h \in HeaderValues },
      secret  : {None} \cup { Some(s) : s \in Secrets } ]

InitVerify ==
    /\ config = [ defaults |-> [enabled |-> None],
                  projects |-> [alpha |-> AlphaProject(Some(TRUE), <<>>),
                                beta |-> BetaProject] ]
    /\ pc = "idle"
    /\ req = NoReq
    /\ resp = NoResp
    /\ cur = ""
    /\ idx = 0
    /\ success_count = 0
    /\ attempts = <<>>
    /\ child = None
    /\ vin \in VerifyInputs
    /\ vout = None

\* A call verify_signature(payload, header, secret)
VerifyCall ==
    /\ vout = None
    /\ vout' = Some(verify_signature(vin.payload, vin.header, vin.secret))
    /\ UNCHANGED <<config, pc, req, resp, cur, idx, success_count, attempts, child,
                   vin>>

NextVerify == VerifyCall

SpecVerify == InitVerify /\ [][NextVerify]_vars

\* ------------------------------------------------------------- properties
\* What a request is, read off the request itself and the configuration file

\* The path is /webhook/{id}, possibly with more after the id
WellFormedPath == Len(Strip(req.path, "/")) >= 3
                  /\ StartsWith(Strip(req.path, "/"), <<"webhook", "/">>)
                  /\ Strip(req.path, "/")[3] # "/"

TargetId == Strip(req.path, "/")[3]

\* A POST whose path names a configured project
ToProject == req.method = "POST" /\ WellFormedPath /\ TargetId \in ProjectIds

\* The header is sha256=<HMAC-SHA256(the target's own secret, raw body)>
SignedForTarget ==
    /\ config.projects[TargetId].secret # None
    /\ req.header =
         Some(<<"sha256", "=", HexDigest(Val(config.projects[TargetId].secret), req.body)>>)

BodyIsJson == json_loads(req.body).exc = "none"

Payload == json_loads(req.body).val

\* The project's own enabled entry, false when it has none
OwnEnabled(id) == Get(config.projects[id].enabled, FALSE)

\* The project's enabled entry, else that of the defaults section, else false
EffectiveEnabled(id) ==
    IF config.projects[id].enabled # None
    THEN Val(config.projects[id].enabled)
    ELSE Get(config.defaults.enabled, FALSE)

\* repository.full_name of the payload, None when the payload has none
PayloadRepoName ==
    IF Payload.repository # None /\ Val(Payload.repository).kind = "object"
    THEN Val(Payload.repository).full_name
    ELSE None

RepositoryDiffers == PayloadRepoName # config.projects[TargetId].repository

RefDiffers ==
    Payload.ref # Some("refs/heads/" \o Get(config.projects[TargetId].branch, "main"))

Declared(id) == Get(config.projects[id].actions, <<>>)

\* A delivery that passes every check of the dispatcher
FullMatch ==
    /\ ToProject /\ SignedForTarget /\ BodyIsJson
    /\ EffectiveEnabled(TargetId)
    /\ Payload.kind = "object"
    /\ ~RepositoryDiffers /\ ~RefDiffers

NoActionRun == attempts = <<>> /\ child = None /\ pc \notin {"dispatch", "running"}

NoActionText(reason) == "Webhook received but no action taken: " \o reason

Succeeded == { i \in 1..Len(attempts) : attempts[i].ok }

\* C1 (as stated): a POST with a well-formed path, a configured project, a valid
\* signature and a JSON body is answered 200; 404, 403 and 400 are answered only
\* for a bad path or unknown project, a bad signature and an unparseable body, and
\* no other status is ever sent.
C1_OnlyFourStatuses ==
    (pc = "done" /\ req.method = "POST") =>
        /\ resp.status \in {200, 400, 403, 404}
        /\ (ToProject /\ SignedForTarget /\ BodyIsJson) => resp.status = 200
        /\ resp.status = 404 => ~ToProject
        /\ resp.status = 403 => (ToProject /\ ~SignedForTarget)
        /\ resp.status = 400 => (ToProject /\ ~BodyIsJson)

\* C2: a POST to a configured project whose signature header is absent, malformed
\* or not the HMAC of the body under that project's own secret is answered 403,
\* and no action is attempted and no child is started during that request.
C2_BadSignatureRejected ==
    (ToProject /\ ~SignedForTarget) =>
        /\ NoActionRun
        /\ pc = "done" => resp.status = 403

\* C2 witness: a delivery for alpha, enabled and with actions to run, signed with
\* beta's secret, has been answered 403.
C2_Witness ==
    /\ pc = "done" /\ ToProject /\ TargetId = "alpha"
    /\ req.body = BodyMainAlpha
    /\ req.header = Some(<<"sha256", "=", HexDigest("s2", req.body)>>)
    /\ EffectiveEnabled("alpha") /\ Len(Declared("alpha")) > 0
    /\ resp.status = 403

\* C3 (as stated): a project whose own enabled flag is false or absent is never
\* dispatched: for any request to it no action is executed, and a delivery with a
\* valid signature and a matching repository and ref is answered 200 "Project
\* disabled".
C3_OwnFlagOffNeverDispatched ==
    (ToProject /\ ~OwnEnabled(TargetId)) =>
        /\ NoActionRun
        /\ ( /\ pc = "done" /\ SignedForTarget /\ BodyIsJson
             /\ Payload.kind = "object" /\ ~RepositoryDiffers /\ ~RefDiffers ) =>
               (resp.status = 200 /\ resp.text = NoActionText("Project disabled"))

\* C3 (amended): a project whose effective enabled flag (its own entry, else the
\* entry of the defaults section) is false or absent is never dispatched: no action
\* is attempted for any request to it, and a validly signed JSON delivery to it
\* (matching repository and ref or not) is answered 200 "Project disabled".
C3_DisabledNeverDispatched ==
    (ToProject /\ ~EffectiveEnabled(TargetId)) =>
        /\ NoActionRun
        /\ (pc = "done" /\ SignedForTarget /\ BodyIsJson) =>
               (resp.status = 200 /\ resp.text = NoActionText("Project disabled"))

\* C3 witness: a signed delivery matching alpha's repository and branch, alpha
\* having actions but being disabled, has been answered 200 "Project disabled".
C3_Witness ==
    /\ pc = "done" /\ ToProject /\ TargetId = "alpha" /\ SignedForTarget
    /\ req.body = BodyMainAlpha
    /\ ~EffectiveEnabled("alpha") /\ Len(Declared("alpha")) > 0
    /\ resp.status = 200 /\ resp.text = NoActionText("Project disabled")
    /\ attempts = <<>>

\* C4: on a fully matching delivery the actions are attempted in the declared
\* order, each once, one at a time: the i-th attempt is the i-th declared action,
\* an attempt begins only when every earlier one has ended, at most one child
\* runs, and when the response is sent every declared action has been attempted.
C4_DeclaredOrder ==
    /\ attempts # <<>> => FullMatch
    /\ FullMatch =>
        /\ Len(attempts) <= Len(Declared(TargetId))
        /\ \A i \in 1..Len(attempts) :
               /\ attempts[i].index = i
               /\ attempts[i].action = Declared(TargetId)[i]
               /\ attempts[i].exit = "pending" => (i = Len(attempts) /\ pc = "running")
        /\ pc = "running" => attempts[Len(attempts)].exit = "pending"
        /\ child # None <=> pc = "running"
        /\ pc = "done" => Len(attempts) = Len(Declared(TargetId))

\* C4 witness: a delivery with two declared actions, both run as children, is
\* answered after the second one ended.
C4_Witness ==
    /\ pc = "done" /\ FullMatch
    /\ Len(attempts) = 2
    /\ attempts[1].spawned /\ attempts[2].spawned
    /\ attempts[1].action # attempts[2].action

C6_ResultCountsSuccesses ==
    (pc = "done" /\ FullMatch) =>
        /\ resp.result # None
        /\ LET r == Val(resp.result)
               n == Len(Declared(TargetId))
               k == Cardinality(Succeeded)
               all == \A i \in 1..n : i <= Len(attempts) /\ attempts[i].ok
           IN  /\ r.success <=> all
               /\ r.success => r.message = "All actions completed successfully"
               /\ ~r.success =>
                      /\ k < n
                      /\ r.message = "Only " \o ToString(k) \o "/" \o ToString(n)
                                     \o " actions completed"
               /\ n = 0 => r.success

\* C6 witness: of two declared actions exactly one succeeded, and the answer is
\* "Only 1/2 actions completed".
C6_Witness ==
    /\ pc = "done" /\ FullMatch
    /\ Len(Declared(TargetId)) = 2 /\ Cardinality(Succeeded) = 1
    /\ resp.result = Some([success |-> FALSE, message |-> "Only 1/2 actions completed"])

\* C7 (as stated): for an enabled project and a validly signed JSON object, a
\* repository.full_name other than the configured repository, or a ref other than
\* refs/heads/{branch}, runs no action and is answered 200 with the no-action
\* message naming the first failing check, repository before branch.
C7_MismatchAnswered200 ==
    ( /\ pc = "done" /\ ToProject /\ SignedForTarget /\ BodyIsJson
      /\ EffectiveEnabled(TargetId)
      /\ Payload.kind = "object"
      /\ (RepositoryDiffers \/ RefDiffers) ) =>
        /\ attempts = <<>>
        /\ resp.status = 200
        /\ resp.text = NoActionText(IF RepositoryDiffers THEN "Repository mismatch"
                                                         ELSE "Branch mismatch")

\* C8: verify_signature returns a boolean and never raises, and returns true
\* exactly when there is a secret and the header is "sha256=" followed by the hex
\* HMAC-SHA256 of the payload under that secret.
C8_VerifyExact ==
    vout # None =>
        /\ Val(vout).exc = "none"
        /\ Val(vout).val \in BOOLEAN
        /\ Val(vout).val <=>
               ( /\ vin.secret # None
                 /\ vin.header =
                      Some(<<"sha256", "=", HexDigest(Val(vin.secret), vin.payload)>>) )

\* C8 witness: verify_signature has accepted a header.
C8_Witness == vout # None /\ Val(vout).val /\ vin.secret = Some("s2")

\* C9 (as stated): an action counts as successful only if a child was run for it
\* and exited with code 0.
C9_SuccessNeedsExitZero ==
    \A i \in 1..Len(attempts) :
        attempts[i].ok => (attempts[i].spawned /\ attempts[i].exit = "exit0")

\* C10 (as stated): the enabled flag GET /health and GET /projects report for a
\* project is the enabled value the dispatcher uses for it.
C10_ReportAgreesWithDispatcher ==
    (pc = "done" /\ resp.report # None) =>
        \A id \in ProjectIds :
            Val(resp.report)[id] = IsEnabled(Val(get_project_config(id)))

====
